---- MODULE Spec2Model ----
(***************************************************************************)
(* Model of src/api/settings/config.py: the Settings class (pydantic-       *)
(* settings BaseSettings), the lru_cache-wrapped get_settings(), and the    *)
(* module-level `settings` / `SettingsDependency` bindings.                 *)
(*                                                                          *)
(* Text values are sequences of one-character strings, so that lengths and  *)
(* integer parsing are computed and not assumed.                            *)
(***************************************************************************)
EXTENDS Integers, Sequences, FiniteSets, TLC

\* ------------------------------------------------------------------ bounds
NThreads == 2
MaxImports == 2
MaxCalls == 2
MaxChanges == 1

Threads == 1..NThreads

\* --------------------------------------------------- constants of the code
\* Field(min_length=64) and Field(max_length=64) of SECRET_KEY, Field(ge=1)
\* of ACCESS_TOKEN_EXPIRE_MINUTES.
min_length == 64
max_length == 64
ge == 1

\* The four annotated fields of class Settings.
FieldNames == {"SECRET_KEY", "ALGORITHM", "ACCESS_TOKEN_EXPIRE_MINUTES", "DATABASE_URL"}

\* ------------------------------------------------------------------- text
Rep(c, n) == [i \in 1..n |-> c]

Digits == {"0", "1", "2", "3", "4", "5", "6", "7", "8", "9"}

DigitVal(c) ==
    CASE c = "0" -> 0 [] c = "1" -> 1 [] c = "2" -> 2 [] c = "3" -> 3
      [] c = "4" -> 4 [] c = "5" -> 5 [] c = "6" -> 6 [] c = "7" -> 7
      [] c = "8" -> 8 [] c = "9" -> 9

IsDigits(s) == Len(s) > 0 /\ \A i \in 1..Len(s) : s[i] \in Digits

RECURSIVE NatOf(_)
NatOf(s) ==
    IF s = <<>> THEN 0
    ELSE NatOf(SubSeq(s, 1, Len(s) - 1)) * 10 + DigitVal(s[Len(s)])

\* An environment slot: a variable that is set carries its text.
Unset == [present |-> FALSE, text |-> <<>>]
Set(s) == [present |-> TRUE, text |-> s]

\* The validation of an `int` field from the text of an environment
\* variable: an optional sign followed by decimal digits.
ParseInt(s) ==
    LET signed == Len(s) > 0 /\ s[1] \in {"-", "+"}
        body   == IF signed THEN Tail(s) ELSE s
    IN  IF IsDigits(body)
        THEN [ok |-> TRUE,
              n  |-> IF signed /\ s[1] = "-" THEN 0 - NatOf(body) ELSE NatOf(body)]
        ELSE [ok |-> FALSE, n |-> 0]

\* ---------------------------------------------------------- class Settings
\* Faulty variant of Effective: the env_file overrides the process environment.
EffectiveFileFirst(env, file, f) == IF file[f].present THEN file[f] ELSE env[f]

\* The value a field is read from: the process environment wins over the
\* env_file.
Effective(env, file, f) == IF env[f].present THEN env[f] ELSE file[f]

\* Faulty variant of SECRET_KEY_ok: only max_length is declared.
SECRET_KEY_maxonly(v) == v.present /\ Len(v.text) <= max_length

SECRET_KEY_ok(v) ==
    v.present /\ Len(v.text) >= min_length /\ Len(v.text) <= max_length

\* Faulty variant of ALGORITHM_ok: the field has a default and is not required.
ALGORITHM_optional(v) == TRUE

ALGORITHM_ok(v) == v.present

\* Faulty variant of ACCESS_TOKEN_EXPIRE_MINUTES_ok: the bound is one too low.
ACCESS_TOKEN_EXPIRE_MINUTES_nonneg(v) ==
    v.present /\ ParseInt(v.text).ok /\ ParseInt(v.text).n >= ge - 1

ACCESS_TOKEN_EXPIRE_MINUTES_ok(v) ==
    v.present /\ ParseInt(v.text).ok /\ ParseInt(v.text).n >= ge

DATABASE_URL_ok(v) == v.present

FieldOk(f, v) ==
    CASE f = "SECRET_KEY" -> SECRET_KEY_ok(v)
      [] f = "ALGORITHM" -> ALGORITHM_ok(v)
      [] f = "ACCESS_TOKEN_EXPIRE_MINUTES" -> ACCESS_TOKEN_EXPIRE_MINUTES_ok(v)
      [] f = "DATABASE_URL" -> DATABASE_URL_ok(v)

\* The fields that fail validation (the entries of the ValidationError).
Errors(env, file) == {f \in FieldNames : ~FieldOk(f, Effective(env, file, f))}

\* The record Settings() constructs when validation passes.
Record(env, file) ==
    [SECRET_KEY |-> Effective(env, file, "SECRET_KEY").text,
     ALGORITHM |-> Effective(env, file, "ALGORITHM").text,
     ACCESS_TOKEN_EXPIRE_MINUTES |->
         ParseInt(Effective(env, file, "ACCESS_TOKEN_EXPIRE_MINUTES").text).n,
     DATABASE_URL |-> Effective(env, file, "DATABASE_URL").text]

\* Settings(): either raises (ok = FALSE, no record) or returns the record.
Settings(env, file) ==
    IF Errors(env, file) = {}
    THEN [ok |-> TRUE, errors |-> {}, value |-> <<Record(env, file)>>]
    ELSE [ok |-> FALSE, errors |-> Errors(env, file), value |-> <<>>]


\* ----------------------------------------------------------- input values
HS256 == <<"H", "S", "2", "5", "6">>
RS256 == <<"R", "S", "2", "5", "6">>
SqliteUrl == <<"s", "q", "l", "i", "t", "e", ":", "/", "/", "/", "x">>
PgUrl == <<"p", "g", ":", "/", "/", "h", "/", "d">>
KeyA == Rep("a", max_length)
KeyB == [i \in 1..max_length |-> IF i % 2 = 0 THEN " " ELSE "#"]

\* Texts the process environment may hold for a field (valid and invalid).
EnvTexts(f) ==
    CASE f = "SECRET_KEY" ->
            {<<>>, Rep("a", min_length - 1), KeyA, KeyB, Rep("a", max_length + 1)}
      [] f = "ALGORITHM" -> {<<>>, HS256}
      [] f = "ACCESS_TOKEN_EXPIRE_MINUTES" ->
            {<<>>, <<"0">>, <<"1">>, <<"-", "1">>, <<"3", "0">>, <<"x">>,
             <<"1", "x">>, <<"-">>}
      [] f = "DATABASE_URL" -> {<<>>, SqliteUrl}

\* Texts the env_file may hold for a field.
FileTexts(f) ==
    CASE f = "SECRET_KEY" -> {KeyB, Rep("b", max_length + 1)}
      [] f = "ALGORITHM" -> {<<>>, RS256}
      [] f = "ACCESS_TOKEN_EXPIRE_MINUTES" -> {<<"0">>, <<"5">>}
      [] f = "DATABASE_URL" -> {<<>>, PgUrl}

\* A value that passes every declared constraint, per field and source.
GoodEnvText(f) ==
    CASE f = "SECRET_KEY" -> KeyA
      [] f = "ALGORITHM" -> HS256
      [] f = "ACCESS_TOKEN_EXPIRE_MINUTES" -> <<"3", "0">>
      [] f = "DATABASE_URL" -> SqliteUrl

GoodFileText(f) ==
    CASE f = "SECRET_KEY" -> KeyB
      [] f = "ALGORITHM" -> RS256
      [] f = "ACCESS_TOKEN_EXPIRE_MINUTES" -> <<"5">>
      [] f = "DATABASE_URL" -> PgUrl

Slots(texts) == {Unset} \cup {Set(s) : s \in texts}

\* Every process environment / env_file over the four variables.
AllEnvirons == {e \in [FieldNames -> UNION {Slots(EnvTexts(f)) : f \in FieldNames}] :
                   \A f \in FieldNames : e[f] \in Slots(EnvTexts(f))}
AllDotenvs == {e \in [FieldNames -> UNION {Slots(FileTexts(f)) : f \in FieldNames}] :
                  \A f \in FieldNames : e[f] \in Slots(FileTexts(f))}

\* The environments a process starts in under Spec: each variable exported
\* with a valid value or not at all; the env_file absent or complete.
StartEnvirons == [FieldNames -> {Unset}] \cup {[f \in FieldNames |-> Set(GoodEnvText(f))]}
                 \cup {[f \in FieldNames |-> IF f = g THEN Unset ELSE Set(GoodEnvText(f))] :
                        g \in FieldNames}
StartDotenvs == {[f \in FieldNames |-> Unset], [f \in FieldNames |-> Set(GoodFileText(f))]}

\* ------------------------------------------------------------------ state
VARIABLES
    environ,             \* os.environ restricted to the four variables
    dotenv,              \* the parsed contents of Path.cwd() / ".env"
    module,              \* sys.modules state of api.settings.config
    importer,            \* the thread executing the module body, 0 if none
    cache,               \* lru_cache entry of get_settings for key (): 0 = empty
    instances,           \* the Settings objects constructed so far, by identity
    loads,               \* number of Settings() constructions executed
    failures,            \* number of those that raised
    pc,                  \* each thread's position
    local,               \* result of the wrapped call held before the store
    ret,                 \* what get_settings() last returned to each thread
    settings,            \* module-level `settings`: 0 = not bound
    SettingsDependency,  \* whether the module-level name is bound
    imports,             \* number of executions of the module body
    calls,               \* number of get_settings() calls made by clients
    changes              \* number of changes made to the environment

vars == <<environ, dotenv, module, importer, cache, instances, loads, failures,
          pc, local, ret, settings, SettingsDependency, imports, calls, changes>>

NoReturn == [kind |-> "none", obj |-> 0, epoch |-> 0]

TypeOK ==
    /\ module \in {"absent", "defined", "importing", "imported"}
    /\ importer \in 0..NThreads
    /\ cache \in 0..Len(instances)
    /\ settings \in 0..Len(instances)
    /\ SettingsDependency \in BOOLEAN
    /\ pc \in [Threads -> {"idle", "call", "load", "store", "bind"}]
    /\ local \in [Threads -> 0..Len(instances)]
    /\ \A t \in Threads : ret[t].kind \in {"none", "value", "error"}

Blank ==
    /\ importer = 0
    /\ cache = 0
    /\ instances = <<>>
    /\ loads = 0
    /\ failures = 0
    /\ pc = [t \in Threads |-> "idle"]
    /\ local = [t \in Threads |-> 0]
    /\ ret = [t \in Threads |-> NoReturn]
    /\ settings = 0
    /\ SettingsDependency = FALSE
    /\ imports = 0
    /\ calls = 0
    /\ changes = 0

\* Process start: the module has not been imported.
Init ==
    /\ environ \in StartEnvirons
    /\ dotenv \in StartDotenvs
    /\ module = "absent"
    /\ Blank


\* ------------------------------------------------------------- operations
\* Where a thread continues when get_settings() returns to it: the importing
\* thread is at line 97 and goes on to bind `settings`.
AfterReturn(t) == IF module = "importing" /\ importer = t THEN "bind" ELSE "idle"

\* Faulty variant of ImportStart: the module body does not call get_settings(); the
\* import completes with the cache empty and `settings` left to a first use.
ImportLazy(t) ==
    /\ module = "absent"
    /\ pc[t] = "idle"
    /\ imports < MaxImports
    /\ module' = "imported"
    /\ SettingsDependency' = TRUE
    /\ cache' = 0
    /\ imports' = imports + 1
    /\ UNCHANGED <<environ, dotenv, importer, instances, loads, failures, pc, local,
                   ret, settings, calls, changes>>

\* `import api.settings.config` by a thread when sys.modules has no entry:
\* the module body runs under the import lock; lines 29-92 define Settings
\* and a new get_settings with an empty cache, line 97 calls it.
ImportStart(t) ==
    /\ module = "absent"
    /\ pc[t] = "idle"
    /\ imports < MaxImports
    /\ module' = "importing"
    /\ importer' = t
    /\ cache' = 0
    /\ imports' = imports + 1
    /\ pc' = [pc EXCEPT ![t] = "call"]
    /\ UNCHANGED <<environ, dotenv, instances, loads, failures, local, ret,
                   settings, SettingsDependency, calls, changes>>

\* A client calls get_settings(), directly or through Depends(get_settings).
\* It holds the function object: the import has completed ("imported"), or
\* the function is taken on its own, defined and not yet called ("defined").
Call(t) ==
    /\ module \in {"imported", "defined"}
    /\ pc[t] = "idle"
    /\ calls < MaxCalls
    /\ calls' = calls + 1
    /\ pc' = [pc EXCEPT ![t] = "call"]
    /\ UNCHANGED <<environ, dotenv, module, importer, cache, instances, loads,
                   failures, local, ret, settings, SettingsDependency, imports, changes>>

\* Faulty variant of Lookup: get_settings is not memoized, every call runs the body.
LookupNoCache(t) ==
    /\ pc[t] = "call"
    /\ pc' = [pc EXCEPT ![t] = "load"]
    /\ UNCHANGED <<environ, dotenv, module, importer, cache, instances, loads, failures,
                   local, ret, settings, SettingsDependency, imports, calls, changes>>

\* lru_cache wrapper, first half: look the key up; a hit returns the cached
\* object, a miss goes on to call the wrapped function.
Lookup(t) ==
    /\ pc[t] = "call"
    /\ IF cache # 0
       THEN /\ ret' = [ret EXCEPT ![t] = [kind |-> "value", obj |-> cache, epoch |-> changes]]
            /\ pc' = [pc EXCEPT ![t] = AfterReturn(t)]
       ELSE /\ pc' = [pc EXCEPT ![t] = "load"]
            /\ UNCHANGED ret
    /\ UNCHANGED <<environ, dotenv, module, importer, cache, instances, loads,
                   failures, local, settings, SettingsDependency, imports, calls, changes>>

\* The wrapped function body, `return Settings()`. A ValidationError leaves
\* the wrapper without storing anything; raised at line 97 it ends the import
\* and the module is removed from sys.modules.
Load(t) ==
    /\ pc[t] = "load"
    /\ loads' = loads + 1
    /\ LET r == Settings(environ, dotenv) IN
       IF r.ok
       THEN /\ instances' = Append(instances, r.value[1])
            /\ local' = [local EXCEPT ![t] = Len(instances) + 1]
            /\ pc' = [pc EXCEPT ![t] = "store"]
            /\ UNCHANGED <<failures, ret, module, importer>>
       ELSE /\ failures' = failures + 1
            /\ ret' = [ret EXCEPT ![t] = [kind |-> "error", obj |-> 0, epoch |-> changes]]
            /\ pc' = [pc EXCEPT ![t] = "idle"]
            /\ IF module = "importing" /\ importer = t
               THEN module' = "absent" /\ importer' = 0
               ELSE UNCHANGED <<module, importer>>
            /\ UNCHANGED <<instances, local>>
    /\ UNCHANGED <<environ, dotenv, cache, settings, SettingsDependency,
                   imports, calls, changes>>

\* lru_cache wrapper, second half: if the key was added during the call the
\* computed result is returned without storing it, otherwise it is stored.
Store(t) ==
    /\ pc[t] = "store"
    /\ cache' = IF cache = 0 THEN local[t] ELSE cache
    /\ ret' = [ret EXCEPT ![t] = [kind |-> "value", obj |-> local[t], epoch |-> changes]]
    /\ pc' = [pc EXCEPT ![t] = AfterReturn(t)]
    /\ UNCHANGED <<environ, dotenv, module, importer, instances, loads, failures,
                   local, settings, SettingsDependency, imports, calls, changes>>

\* Lines 97-99: bind `settings` to the returned object and define
\* SettingsDependency; the import completes.
FinishImport(t) ==
    /\ pc[t] = "bind"
    /\ settings' = ret[t].obj
    /\ SettingsDependency' = TRUE
    /\ module' = "imported"
    /\ importer' = 0
    /\ pc' = [pc EXCEPT ![t] = "idle"]
    /\ UNCHANGED <<environ, dotenv, cache, instances, loads, failures, local,
                   ret, imports, calls, changes>>

\* Faulty variant of Frozen: the fields are annotated without Final.
NotFrozen(f) == f \notin FieldNames

\* Every field is annotated Final[...], which makes it frozen.
Frozen(f) == f \in FieldNames

\* A holder of the record assigns to one of its fields: a frozen field
\* rejects the assignment and the record is left as it was.
SetAttr(t, f) ==
    /\ pc[t] = "idle"
    /\ ret[t].kind = "value"
    /\ IF Frozen(f)
       THEN UNCHANGED instances
       ELSE instances' = [instances EXCEPT ![ret[t].obj] =
                [@ EXCEPT ![f] = IF f = "ACCESS_TOKEN_EXPIRE_MINUTES" THEN 0 ELSE <<>>]]
    /\ UNCHANGED <<environ, dotenv, module, importer, cache, loads, failures, pc,
                   local, ret, settings, SettingsDependency, imports, calls, changes>>

\* The surroundings change a variable of the process environment.
ChangeEnviron(f, v) ==
    /\ changes < MaxChanges
    /\ v # environ[f]
    /\ environ' = [environ EXCEPT ![f] = v]
    /\ changes' = changes + 1
    /\ UNCHANGED <<dotenv, module, importer, cache, instances, loads, failures, pc,
                   local, ret, settings, SettingsDependency, imports, calls>>

\* The surroundings rewrite a line of the env_file.
ChangeDotenv(f, v) ==
    /\ changes < MaxChanges
    /\ v # dotenv[f]
    /\ dotenv' = [dotenv EXCEPT ![f] = v]
    /\ changes' = changes + 1
    /\ UNCHANGED <<environ, module, importer, cache, instances, loads, failures, pc,
                   local, ret, settings, SettingsDependency, imports, calls>>

\* The values a change writes: the variable is removed, or set to another
\* valid value.
ChangeSlots(f) == {Unset, Set(GoodFileText(f))}

\* --------------------------------------------------------- specifications
\* The module in a process: imports, then calls and injections from the
\* threads of the serving layer, while the environment may change.
Next ==
    \/ \E t \in Threads : ImportStart(t)
    \/ \E t \in Threads : Call(t)
    \/ \E t \in Threads : Lookup(t)
    \/ \E t \in Threads : Load(t)
    \/ \E t \in Threads : Store(t)
    \/ \E t \in Threads : FinishImport(t)
    \/ \E t \in Threads, f \in FieldNames : SetAttr(t, f)
    \/ \E f \in FieldNames : \E v \in ChangeSlots(f) : ChangeEnviron(f, v)
    \/ \E f \in FieldNames : \E v \in ChangeSlots(f) : ChangeDotenv(f, v)

Spec == Init /\ [][Next]_vars

\* get_settings on its own: the function object of lines 84-92 with its
\* cache still empty, called by threads that hold it.
InitCalls ==
    /\ environ \in StartEnvirons
    /\ dotenv \in StartDotenvs
    /\ module = "defined"
    /\ Blank

NextCalls ==
    \/ \E t \in Threads : Call(t)
    \/ \E t \in Threads : Lookup(t)
    \/ \E t \in Threads : Load(t)
    \/ \E t \in Threads : Store(t)
    \/ \E f \in FieldNames : \E v \in ChangeSlots(f) : ChangeEnviron(f, v)
    \/ \E f \in FieldNames : \E v \in ChangeSlots(f) : ChangeDotenv(f, v)

SpecCalls == InitCalls /\ [][NextCalls]_vars

\* The load alone, over every environment and env_file of the input sets:
\* one import of the module in an unchanging environment.
InitLoad ==
    /\ environ \in AllEnvirons
    /\ dotenv \in AllDotenvs
    /\ module = "absent"
    /\ Blank

NextLoad ==
    \/ \E t \in Threads : ImportStart(t)
    \/ \E t \in Threads : Lookup(t)
    \/ \E t \in Threads : Load(t)
    \/ \E t \in Threads : Store(t)
    \/ \E t \in Threads : FinishImport(t)

SpecLoad == InitLoad /\ [][NextLoad]_vars


\* ------------------------------------------------------------- properties
\* The effective text of a variable, stated from the two sources directly.
EffPresent(f) == environ[f].present \/ dotenv[f].present
EffText(f) == IF environ[f].present THEN environ[f].text ELSE dotenv[f].text

\* The integers the valid minute texts of the input sets denote.
Denotes(s, n) ==
    \/ s = <<"1">> /\ n = 1
    \/ s = <<"5">> /\ n = 5
    \/ s = <<"3", "0">> /\ n = 30

\* The minute texts of the input sets that are not integers, and those that
\* are integers below 1.
NonNumeric(s) == s \in {<<>>, <<"x">>, <<"1", "x">>, <<"-">>}
BelowOne(s) == s \in {<<"0">>, <<"-", "1">>}

KeyValid == EffPresent("SECRET_KEY") /\ Len(EffText("SECRET_KEY")) = 64
MinutesValid ==
    /\ EffPresent("ACCESS_TOKEN_EXPIRE_MINUTES")
    /\ \E n \in 1..30 : Denotes(EffText("ACCESS_TOKEN_EXPIRE_MINUTES"), n)

\* Some get_settings() call has ended, one way or the other.
SomeLoadDone == loads >= 1
NoRecordBuilt == instances = <<>> /\ cache = 0 /\ failures = loads
    /\ \A t \in Threads : ret[t].kind # "value"

C2_CachedOnce ==
    (loads >= 1 /\ failures = 0) =>
        /\ loads = 1
        /\ Len(instances) = 1
        /\ cache \in {0, 1}
        /\ \A t \in Threads : ret[t].kind = "value" => ret[t].obj = 1

\* C2 witness: a call returned the cached record after the environment had
\* changed to one from which the load would give a different result.
C2_Witness ==
    \E t \in Threads :
        /\ ret[t].kind = "value"
        /\ ret[t].epoch >= 1
        /\ calls >= 1
        /\ failures = 0
        /\ \/ ~Settings(environ, dotenv).ok
           \/ Record(environ, dotenv) # instances[ret[t].obj]

\* C3: the load runs exactly once per process also when it fails: after a
\* get_settings() call that ended in a configuration error the load is not
\* executed again and no later call returns a record.
C3_LoadOnceNoRetry ==
    failures >= 1 =>
        /\ loads = 1
        /\ \A t \in Threads : ret[t].kind # "value"

\* C4: an ALGORITHM or DATABASE_URL that is present but empty makes the load
\* fail: no Settings record is built from such an input.
C4_EmptyRejected ==
    (\/ EffPresent("ALGORITHM") /\ EffText("ALGORITHM") = <<>>
     \/ EffPresent("DATABASE_URL") /\ EffText("DATABASE_URL") = <<>>)
        => instances = <<>>

\* C5: when one of the four variables is supplied by neither the process
\* environment nor the env_file, every load fails: no record is built,
\* nothing is cached and the caller gets the error.
C5_MissingFails ==
    ((\E f \in FieldNames : ~EffPresent(f)) /\ SomeLoadDone) =>
        /\ NoRecordBuilt
        /\ \E t \in Threads : ret[t].kind = "error"

\* C5 witness: a load has failed on an input whose only defect is that
\* ALGORITHM is supplied by neither source.
C5_Witness ==
    /\ failures >= 1
    /\ ~EffPresent("ALGORITHM")
    /\ KeyValid /\ MinutesValid /\ EffPresent("DATABASE_URL")

\* C6: a SECRET_KEY whose length is not 64 makes every load fail, and a key
\* of exactly 64 characters never does, whatever its characters are.
C6_KeyLength ==
    /\ (EffPresent("SECRET_KEY") /\ Len(EffText("SECRET_KEY")) # 64 /\ SomeLoadDone)
          => NoRecordBuilt
    /\ (KeyValid /\ MinutesValid /\ EffPresent("ALGORITHM") /\ EffPresent("DATABASE_URL"))
          => failures = 0

\* C6 witness: a load has failed on a key of 65 characters, nothing else
\* being wrong with the input.
C6_Witness ==
    /\ failures >= 1
    /\ EffPresent("SECRET_KEY") /\ Len(EffText("SECRET_KEY")) = 65
    /\ MinutesValid /\ EffPresent("ALGORITHM") /\ EffPresent("DATABASE_URL")

\* C7: an ACCESS_TOKEN_EXPIRE_MINUTES that is not a number, or is an integer
\* below 1, makes every load fail; the text "1" is accepted and no record
\* holds a value below 1.
C7_MinutesAtLeastOne ==
    /\ (/\ EffPresent("ACCESS_TOKEN_EXPIRE_MINUTES")
        /\ \/ NonNumeric(EffText("ACCESS_TOKEN_EXPIRE_MINUTES"))
           \/ BelowOne(EffText("ACCESS_TOKEN_EXPIRE_MINUTES"))
        /\ SomeLoadDone) => NoRecordBuilt
    /\ (/\ EffPresent("ACCESS_TOKEN_EXPIRE_MINUTES")
        /\ EffText("ACCESS_TOKEN_EXPIRE_MINUTES") = <<"1">>
        /\ KeyValid /\ EffPresent("ALGORITHM") /\ EffPresent("DATABASE_URL"))
          => failures = 0
    /\ \A i \in 1..Len(instances) : instances[i].ACCESS_TOKEN_EXPIRE_MINUTES >= 1

\* C7 witness: a load has failed on the minutes text "0", nothing else being
\* wrong with the input.
C7_Witness ==
    /\ failures >= 1
    /\ EffPresent("ACCESS_TOKEN_EXPIRE_MINUTES")
    /\ EffText("ACCESS_TOKEN_EXPIRE_MINUTES") = <<"0">>
    /\ KeyValid /\ EffPresent("ALGORITHM") /\ EffPresent("DATABASE_URL")

C9_Immutable ==
    [][/\ \A i \in 1..Len(instances) :
             Len(instances') >= i /\ instances'[i] = instances[i]
       /\ cache # 0 => cache' = cache
       /\ settings # 0 => settings' = settings]_vars

\* C9 witness: with `settings` bound, every thread holds the record after
\* repeated calls made once the environment had changed.
C9_Witness ==
    /\ settings # 0
    /\ calls >= 2
    /\ \A t \in Threads : ret[t].kind = "value" /\ pc[t] = "idle"
    /\ \E t \in Threads : ret[t].epoch >= 1

\* C10: whenever the import has completed, the cache is populated and
\* `settings` is the cached record that every call returns; while it has not
\* completed, `settings` and SettingsDependency are unbound; and when every
\* import-time load so far has failed the module is not in sys.modules.
C10_EagerLoad ==
    /\ module = "imported" =>
          /\ cache # 0
          /\ settings = cache
          /\ SettingsDependency
          /\ \A t \in Threads : ret[t].kind = "value" => ret[t].obj = settings
    /\ module # "imported" => (settings = 0 /\ ~SettingsDependency)
    /\ (imports >= 1 /\ failures = imports /\ importer = 0) => module = "absent"

\* C10 witness: the import has completed and no client has called
\* get_settings() yet.
C10_Witness ==
    /\ module = "imported"
    /\ calls = 0
    /\ settings # 0

====
